---- MODULE Spec2Model ----
(***************************************************************************)
(* gdal2mbtiles: the tile pyramid engine of gdal2mbtiles/vips.py.          *)
(*                                                                         *)
(* VImage geometry (shrink, stretch, tms_align), TmsTiles (slice, _slice,  *)
(* fill_borders, downsample, upsample) and TmsPyramid (slice and its three *)
(* loops) are translated from vips.py.  The Storage that receives the      *)
(* tiles and the Dataset that supplies extents and border tiles are not in *)
(* vips.py; they follow sections 4.3, 5 and 3 of the specification.        *)
(*                                                                         *)
(* Images are modelled by their pixel size; a tile's pixel content by the  *)
(* hash Storage computes from it.  Offsets that the code keeps as floats   *)
(* are exact dyadic rationals <<numerator, denominator>>.                  *)
(***************************************************************************)
EXTENDS Integers, Sequences, FiniteSets, TLC

\* Tile side in pixels (gdal2mbtiles.constants.TILE_SIDE).
TILE_SIDE == 256

\* Largest native resolution of an input dataset.
MaxNative == 1
\* Largest number of zoom levels above the native one that a run may ask for.
MaxUp == 1
\* Largest side, in tiles, of an input image that does not cover the world.
MaxTiles == 2
\* Number of Storage workers and capacity of the Storage work queue.
NumWorkers == 2
QueueCap == 1
\* Bounds of the direct VImage calls: image sides, how far a shrink scale
\* goes above 1 (in quarters), stretch scales, tiles of an aligned image,
\* whole tiles of an offset.
MaxSide == 4
MaxOver == 1
MaxStretch == 5
MaxAlignTiles == 2
MaxOffset == 2
\* What cpu_count() returns, and the counts tried for it.
NumCpus == 2
MaxCpus == 3
\* Bounds of the direct TmsTiles calls: offsets, resolutions, and levels of
\* an upsample.
MaxCallOffset == 3
MaxCallRes == 3
MaxUpLevels == 2
\* Largest magnitude of a rounded pixel offset and of a tile count.
MaxRound == 64

-----------------------------------------------------------------------------
(* Arithmetic of Python 2 as vips.py uses it (true division is imported). *)

RECURSIVE Pow2(_)
Pow2(n) == IF n <= 0 THEN 1 ELSE 2 * Pow2(n - 1)

\* int(n / d): truncation toward zero of the rational n/d, d > 0.
IntTrunc(n, d) == IF n >= 0 THEN n \div d ELSE 0 - ((0 - n) \div d)

\* round(n / d) of Python 2: to nearest, halves away from zero; d > 0.
PyRound(n, d) ==
    IF n >= 0 THEN (2 * n + d) \div (2 * d)
    ELSE 0 - ((2 * (0 - n) + d) \div (2 * d))

\* math.ceil(n / d), d > 0.
Ceil(n, d) == 0 - ((0 - n) \div d)

\* range(lo, hi) as a sequence, and reversed(range(lo, hi)).
Range(lo, hi) == [i \in 1..(IF hi > lo THEN hi - lo ELSE 0) |-> lo + i - 1]
ReversedRange(lo, hi) == [i \in 1..(IF hi > lo THEN hi - lo ELSE 0) |-> hi - i]

-----------------------------------------------------------------------------
(* VImage: an image is [w, h], its pixel size.  An operation yields        *)
(* [err, img]; err = "" when it succeeds.                                  *)

Img(w, h) == [w |-> w, h |-> h]
Ok(img) == [err |-> "", img |-> img]
Fail(e) == [err |-> e, img |-> Img(0, 0)]

\* VImage._scale with scales xs = <<n, d>>, ys = <<n, d>>: the affine's
\* output size is int(Xsize * xscale) by int(Ysize * yscale).
Scale(img, xs, ys) ==
    Img(IntTrunc(img.w * xs[1], xs[2]), IntTrunc(img.h * ys[1], ys[2]))

\* Mutant of Shrink: a scale above 1.0 is accepted.
ShrinkUnbounded(img, xs, ys) ==
    IF ~(0 < xs[1]) THEN Fail("ValueError")
    ELSE IF ~(0 < ys[1]) THEN Fail("ValueError")
    ELSE Ok(Scale(img, xs, ys))

\* VImage.shrink: ValueError unless 0.0 < scale <= 1.0 in both axes.
Shrink(img, xs, ys) ==
    IF ~(0 < xs[1] /\ xs[1] <= xs[2]) THEN Fail("ValueError")
    ELSE IF ~(0 < ys[1] /\ ys[1] <= ys[2]) THEN Fail("ValueError")
    ELSE Ok(Scale(img, xs, ys))

\* VImage.extract_area: the kernel refuses a rectangle outside the image.
ExtractArea(img, left, top, width, height) ==
    IF left >= 0 /\ top >= 0 /\ width > 0 /\ height > 0
       /\ left + width <= img.w /\ top + height <= img.h
    THEN Ok(Img(width, height))
    ELSE Fail("VError")

\* Mutant of Stretch: the image is scaled without its one-pixel frame.
StretchUnframed(img, xs, ys) ==
    IF xs[1] < xs[2] THEN Fail("ValueError")
    ELSE IF ys[1] < ys[2] THEN Fail("ValueError")
    ELSE ExtractArea(Scale(img, xs, ys),
                     IntTrunc(xs[1], xs[2]), IntTrunc(ys[1], ys[2]),
                     IntTrunc(img.w * xs[1], xs[2]),
                     IntTrunc(img.h * ys[1], ys[2]))

\* VImage.stretch: ValueError when a scale is below 1.0; the image is framed
\* by one pixel, scaled, and the frame is cropped away.
Stretch(img, xs, ys) ==
    IF xs[1] < xs[2] THEN Fail("ValueError")
    ELSE IF ys[1] < ys[2] THEN Fail("ValueError")
    ELSE LET extended == Img(img.w + 2, img.h + 2)
             stretched == Scale(extended, xs, ys)
         IN  ExtractArea(stretched,
                         IntTrunc(xs[1], xs[2]), IntTrunc(ys[1], ys[2]),
                         IntTrunc(img.w * xs[1], xs[2]),
                         IntTrunc(img.h * ys[1], ys[2]))

\* Mutant of AlignY: the offset is not converted to the top-left origin.
AlignYUnflipped(img, th, oy) == PyRound(oy[1] * th, oy[2]) % th

\* The pixel offsets x, y that tms_align computes, for an offset whose
\* coordinates are the rationals ox = <<n, d>>, oy = <<n, d>>.
AlignX(img, tw, ox) == PyRound(ox[1] * tw, ox[2]) % tw
AlignY(img, th, oy) == PyRound(img.h * oy[2] - oy[1] * th, oy[2]) % th

\* Mutant of AlignWidth: rounding up by floor + 1, a tile too many when the
\* width is already a whole number of tiles.
AlignWidthFloorPlusOne(img, tw, ox) ==
    ((2 * img.w + AlignX(img, tw, ox)) \div (2 * tw) + 1) * tw

\* Mutant of AlignHeight: rounding up by floor + 1.
AlignHeightFloorPlusOne(img, th, oy) ==
    ((2 * img.h + AlignY(img, th, oy)) \div (2 * th) + 1) * th

\* Mutant of AlignWidth: the tiles across are counted without x.
AlignWidthUnpadded(img, tw, ox) == Ceil(img.w, tw) * tw

\* The canvas size tms_align computes: ceil((size + x / 2) / tile) * tile.
AlignWidth(img, tw, ox) == Ceil(2 * img.w + AlignX(img, tw, ox), 2 * tw) * tw
AlignHeight(img, th, oy) == Ceil(2 * img.h + AlignY(img, th, oy), 2 * th) * th

\* Mutant of TmsAlign: the image is returned as it is, never embedded.
TmsAlignNone(img, tw, th, ox, oy) == Ok(img)

\* VImage.tms_align.
TmsAlign(img, tw, th, ox, oy) ==
    LET x == AlignX(img, tw, ox)
        y == AlignY(img, th, oy)
        width == AlignWidth(img, tw, ox)
        height == AlignHeight(img, th, oy)
    IN  IF width = img.w /\ height = img.h
        THEN IF x = 0 /\ y = 0 THEN Ok(img) ELSE Fail("AssertionError")
        ELSE Ok(Img(width, height))

-----------------------------------------------------------------------------
(* TmsTiles: [w, h, ox, oy, res], the image size, the integer TMS offset   *)
(* of its lower-left tile and its resolution.  The tile side is TILE_SIDE  *)
(* in every TmsTiles the pyramid builds.                                   *)

Tiles(img, ox, oy, res) ==
    [w |-> img.w, h |-> img.h, ox |-> ox, oy |-> oy, res |-> res]
TilesImage(t) == Img(t.w, t.h)
NoTiles == Tiles(Img(0, 0), 0, 0, 0)
TOk(t) == [err |-> "", tiles |-> t]
TFail(e) == [err |-> e, tiles |-> NoTiles]

\* Mutant of DownsampleStep: the halved offset is rounded, not truncated.
DownsampleStepRounded(img, ox, oy, res) ==
    LET hx == <<ox[1], 2 * ox[2]>>
        hy == <<oy[1], 2 * oy[2]>>
        shrunk == Shrink(img, <<1, 2>>, <<1, 2>>)
        aligned == IF shrunk.err = ""
                   THEN TmsAlign(shrunk.img, TILE_SIDE, TILE_SIDE, hx, hy)
                   ELSE shrunk
    IN  [err |-> aligned.err,
         tiles |-> Tiles(aligned.img, PyRound(hx[1], hx[2]),
                         PyRound(hy[1], hy[2]), res),
         ox |-> hx, oy |-> hy]

\* Mutant of DownsampleStep: the image is aligned at the offset it had
\* before the halving.
DownsampleStepUnhalved(img, ox, oy, res) ==
    LET hx == <<ox[1], 2 * ox[2]>>
        hy == <<oy[1], 2 * oy[2]>>
        shrunk == Shrink(img, <<1, 2>>, <<1, 2>>)
        aligned == IF shrunk.err = ""
                   THEN TmsAlign(shrunk.img, TILE_SIDE, TILE_SIDE, ox, oy)
                   ELSE shrunk
    IN  [err |-> aligned.err,
         tiles |-> Tiles(aligned.img, IntTrunc(hx[1], hx[2]),
                         IntTrunc(hy[1], hy[2]), res),
         ox |-> ox, oy |-> oy]

\* One pass of the loop of TmsTiles.downsample: image and offset (rationals)
\* of the previous pass in, the new TmsTiles and the halved offset out.
DownsampleStep(img, ox, oy, res) ==
    LET hx == <<ox[1], 2 * ox[2]>>
        hy == <<oy[1], 2 * oy[2]>>
        shrunk == Shrink(img, <<1, 2>>, <<1, 2>>)
        aligned == IF shrunk.err = ""
                   THEN TmsAlign(shrunk.img, TILE_SIDE, TILE_SIDE, hx, hy)
                   ELSE shrunk
    IN  [err |-> aligned.err,
         tiles |-> Tiles(aligned.img, IntTrunc(hx[1], hx[2]),
                         IntTrunc(hy[1], hy[2]), res),
         ox |-> hx, oy |-> hy]

RECURSIVE DownsampleLoop(_, _, _, _, _)
DownsampleLoop(img, ox, oy, res, last) ==
    LET step == DownsampleStep(img, ox, oy, res)
    IN  IF step.err # "" THEN TFail(step.err)
        ELSE IF res = last THEN TOk(step.tiles)
        ELSE DownsampleLoop(TilesImage(step.tiles), step.ox, step.oy,
                            res - 1, last)

\* TmsTiles.downsample(levels).
Downsample(t, levels) ==
    IF ~(t.res >= levels /\ levels > 0) THEN TFail("AssertionError")
    ELSE DownsampleLoop(TilesImage(t), <<t.ox, 1>>, <<t.oy, 1>>,
                        t.res - 1, t.res - levels)

\* Where tms_align puts the image it is given inside the image it returns:
\* at (x, y) from the top-left corner when it embeds, at (0, 0) when it
\* returns the image itself.
EmbedAt(img, tw, th, ox, oy) ==
    IF AlignWidth(img, tw, ox) = img.w /\ AlignHeight(img, th, oy) = img.h
    THEN <<0, 0>>
    ELSE <<AlignX(img, tw, ox), AlignY(img, th, oy)>>

\* The rectangle that the pixels of the first image cover inside the image
\* of a TmsTiles, from its top-left corner and in units of 1 / d pixel.
Rect(left, top, w, h, d) ==
    [left |-> left, top |-> top, w |-> w, h |-> h, d |-> d]
WholeImage(t) == Rect(0, 0, t.w, t.h, 1)

\* One pass of the loop of TmsTiles.downsample on that rectangle: shrink
\* halves it, tms_align moves it to where it embeds the shrunk image.
ShrinkEmbed(rect, at) ==
    Rect(rect.left + at[1] * 2 * rect.d, rect.top + at[2] * 2 * rect.d,
         rect.w, rect.h, 2 * rect.d)

RECURSIVE ContentLoop(_, _, _, _, _, _)
ContentLoop(img, ox, oy, res, last, rect) ==
    LET step == DownsampleStep(img, ox, oy, res)
        shrunk == Shrink(img, <<1, 2>>, <<1, 2>>)
        moved == ShrinkEmbed(rect, EmbedAt(shrunk.img, TILE_SIDE, TILE_SIDE,
                                           step.ox, step.oy))
    IN  IF step.err # "" \/ res = last THEN moved
        ELSE ContentLoop(TilesImage(step.tiles), step.ox, step.oy,
                         res - 1, last, moved)

\* TmsTiles.downsample(levels) with the rectangle of the first image: the
\* TmsTiles it returns and where the first image lies in it.
DownsamplePlaced(t, rect, levels) ==
    LET d == Downsample(t, levels)
    IN  [err |-> d.err, tiles |-> d.tiles,
         rect |-> IF d.err # "" THEN rect
                  ELSE ContentLoop(TilesImage(t), <<t.ox, 1>>, <<t.oy, 1>>,
                                   t.res - 1, t.res - levels, rect)]

\* The image kernel's process-wide state: its thread count
\* (vips__concurrency, 0 until it is set), the number of times the program
\* has called set_concurrency, the number of VImage objects constructed, and
\* what cpu_count() returns on the machine.
Kernel(concurrency, cpus) ==
    [concurrency |-> concurrency, cpus |-> cpus, sets |-> 0, made |-> 0]

\* Mutant of ConstructOne: every construction sets the thread count.
ConstructOneAlways(v) ==
    [v EXCEPT !.concurrency = v.cpus, !.sets = @ + 1, !.made = @ + 1]

\* VImage.__init__: sets the thread count to cpu_count() if it reads 0.
ConstructOne(v) ==
    IF v.concurrency = 0
    THEN [v EXCEPT !.concurrency = v.cpus, !.sets = @ + 1, !.made = @ + 1]
    ELSE [v EXCEPT !.made = @ + 1]

\* n constructions in a row.
RECURSIVE Construct(_, _)
Construct(v, n) == IF n = 0 THEN v ELSE Construct(ConstructOne(v), n - 1)

\* The VImage objects a call constructs through from_vimage: one in _scale,
\* embed and extract_area each, one more in tms_align when it embeds, none
\* once the call has raised.
ShrinkMade(img, xs, ys) == IF Shrink(img, xs, ys).err = "" THEN 1 ELSE 0
StretchMade(img, xs, ys) ==
    LET r == Stretch(img, xs, ys)
    IN  IF r.err = "ValueError" THEN 0 ELSE IF r.err = "" THEN 3 ELSE 2
AlignMade(img, tw, th, ox, oy) ==
    IF AlignWidth(img, tw, ox) = img.w /\ AlignHeight(img, th, oy) = img.h
    THEN 0
    ELSE 2

RECURSIVE MadeLoop(_, _, _, _, _)
MadeLoop(img, ox, oy, res, last) ==
    LET step == DownsampleStep(img, ox, oy, res)
        shrunk == Shrink(img, <<1, 2>>, <<1, 2>>)
        made == ShrinkMade(img, <<1, 2>>, <<1, 2>>)
                + IF shrunk.err = ""
                  THEN AlignMade(shrunk.img, TILE_SIDE, TILE_SIDE,
                                 step.ox, step.oy)
                  ELSE 0
    IN  IF step.err # "" \/ res = last THEN made
        ELSE made + MadeLoop(TilesImage(step.tiles), step.ox, step.oy,
                             res - 1, last)

DownsampleMade(t, levels) ==
    IF ~(t.res >= levels /\ levels > 0) THEN 0
    ELSE MadeLoop(TilesImage(t), <<t.ox, 1>>, <<t.oy, 1>>,
                  t.res - 1, t.res - levels)

\* Mutant of Upsample: the offset is not scaled with the image.
UpsampleOffsetKept(t, levels) ==
    LET scale == Pow2(levels)
        stretched == Stretch(TilesImage(t), <<scale, 1>>, <<scale, 1>>)
    IN  IF stretched.err # "" THEN TFail(stretched.err)
        ELSE TOk(Tiles(stretched.img, t.ox, t.oy, t.res + levels))

\* Mutant of Upsample: the scale grows by one with each level.
UpsampleScaleLinear(t, levels) ==
    IF ~(levels > 0) THEN TFail("AssertionError")
    ELSE LET scale == levels + 1
             ox == t.ox * scale
             oy == t.oy * scale
             stretched == Stretch(TilesImage(t), <<scale, 1>>, <<scale, 1>>)
             aligned == IF stretched.err = ""
                        THEN TmsAlign(stretched.img, TILE_SIDE, TILE_SIDE,
                                      <<ox, 1>>, <<oy, 1>>)
                        ELSE stretched
         IN  IF aligned.err # "" THEN TFail(aligned.err)
             ELSE TOk(Tiles(aligned.img, ox, oy, t.res + levels))

\* TmsTiles.upsample(levels).
Upsample(t, levels) ==
    IF ~(levels > 0) THEN TFail("AssertionError")
    ELSE LET scale == Pow2(levels)
             ox == t.ox * scale
             oy == t.oy * scale
             stretched == Stretch(TilesImage(t), <<scale, 1>>, <<scale, 1>>)
             aligned == IF stretched.err = ""
                        THEN TmsAlign(stretched.img, TILE_SIDE, TILE_SIDE,
                                      <<ox, 1>>, <<oy, 1>>)
                        ELSE stretched
         IN  IF aligned.err # "" THEN TFail(aligned.err)
             ELSE TOk(Tiles(aligned.img, ox, oy, t.res + levels))

UpsampleMade(t, levels) ==
    IF ~(levels > 0) THEN 0
    ELSE LET scale == Pow2(levels)
             stretched == Stretch(TilesImage(t), <<scale, 1>>, <<scale, 1>>)
         IN  StretchMade(TilesImage(t), <<scale, 1>>, <<scale, 1>>)
             + IF stretched.err = ""
               THEN AlignMade(stretched.img, TILE_SIDE, TILE_SIDE,
                              <<t.ox * scale, 1>>, <<t.oy * scale, 1>>)
               ELSE 0

\* Mutant of SliceOffsetY: the pixel row is not flipped to the TMS origin.
SliceOffsetYUnflipped(t, y) == IntTrunc(y + t.oy * TILE_SIDE, TILE_SIDE)

\* The TMS address TmsTiles._slice gives the tile cut at pixel (x, y):
\* int(x / tile_width + offset.x), int((height - y) / tile_height + offset.y - 1).
SliceOffsetX(t, x) == IntTrunc(x + t.ox * TILE_SIDE, TILE_SIDE)
SliceOffsetY(t, y) == IntTrunc((t.h - y) + (t.oy - 1) * TILE_SIDE, TILE_SIDE)

\* A submission to Storage: kind "tile" (Storage.save) or "border"
\* (Storage.save_border) at zoom z and address (x, y); (px, py) is the pixel
\* the tile was cut at.  Kind "fail" stands for an extract_area the kernel
\* refuses, which ends the loop of _slice.
Entry(kind, z, x, y, px, py) ==
    [kind |-> kind, z |-> z, x |-> x, y |-> y, px |-> px, py |-> py]

\* TmsTiles._slice: the tiles in the order of its two loops, y outermost,
\* up to and including the first extract_area that fails.
SliceCell(t, i) ==
    LET nx == Ceil(t.w, TILE_SIDE)
        px == ((i - 1) % nx) * TILE_SIDE
        py == ((i - 1) \div nx) * TILE_SIDE
    IN  IF ExtractArea(TilesImage(t), px, py, TILE_SIDE, TILE_SIDE).err = ""
        THEN Entry("tile", t.res, SliceOffsetX(t, px), SliceOffsetY(t, py),
                   px, py)
        ELSE Entry("fail", t.res, 0, 0, px, py)

SlicePlan(t) ==
    LET n == Ceil(t.w, TILE_SIDE) * Ceil(t.h, TILE_SIDE)
        bad == {i \in 1..n : SliceCell(t, i).kind = "fail"}
        last == IF bad = {} THEN n
                ELSE CHOOSE i \in bad : \A j \in bad : i <= j
    IN  [i \in 1..last |-> SliceCell(t, i)]

\* Mutant of FillBorders: the last element of borders is left out.
FillBordersButLast(borders, resolution) ==
    [i \in 1..(IF borders = <<>> THEN 0 ELSE Len(borders) - 1) |->
        [kind |-> "border", z |-> resolution, x |-> borders[i][1],
         y |-> borders[i][2], px |-> 0, py |-> 0]]

\* TmsTiles.fill_borders: one save_border per element of borders.
FillBorders(borders, resolution) ==
    [i \in 1..Len(borders) |->
        Entry("border", resolution, borders[i][1], borders[i][2], 0, 0)]

\* Mutant of WholeTiles: only the width is checked.
WholeTilesWidth(t) == t.w % TILE_SIDE = 0

\* TmsTiles.slice checks that the image holds a whole number of tiles.
WholeTiles(t) == t.w % TILE_SIDE = 0 /\ t.h % TILE_SIDE = 0

-----------------------------------------------------------------------------
(* Dataset (gdal.py is outside vips.py): the footprint of the input is the *)
(* image placed with its lower-left corner at tile lower_left of the       *)
(* native zoom.  GetWorldTmsBorders(resolution) lists the tiles of the     *)
(* world at that zoom that do not meet the footprint.                      *)

MeetsFootprint(img, ox, oy, native, z, x, y) ==
    LET up == Pow2(z - native)
        down == Pow2(native - z)
        T == TILE_SIDE
    IN  /\ x * T * down < (ox * T + img.w) * up
        /\ (x + 1) * down > ox * up
        /\ y * T * down < (oy * T + img.h) * up
        /\ (y + 1) * down > oy * up

GetWorldTmsBorders(img, ox, oy, native, z) ==
    LET side == Pow2(z)
        all == [i \in 1..(side * side) |->
                   <<(i - 1) \div side, (i - 1) % side>>]
        Outside(c) == ~MeetsFootprint(img, ox, oy, native, z, c[1], c[2])
    IN  IF z < 0 THEN <<>> ELSE SelectSeq(all, Outside)

-----------------------------------------------------------------------------
(* TmsPyramid.                                                             *)

\* Mutant of ValidResolutions: a negative min_resolution is let through.
ValidResolutionsNegative(min_res, max_res, native) ==
    /\ \A m \in min_res : m < native
    /\ \A m \in max_res : ~(m < native)

\* Mutant of ValidResolutions: min_resolution = native is let through.
ValidResolutionsLoose(min_res, max_res, native) ==
    /\ \A m \in min_res : 0 <= m /\ m <= native
    /\ \A m \in max_res : ~(m < native)

\* TmsPyramid._validate_resolutions; None is the empty set, a bound m is {m}.
ValidResolutions(min_res, max_res, native) ==
    /\ \A m \in min_res : 0 <= m /\ m < native
    /\ \A m \in max_res : ~(m < native)

\* Mutant of DownsampleResolutions: the loop stops one level above
\* min_resolution.
DownsampleResolutionsShort(min_res, native) ==
    IF min_res = {} THEN <<>>
    ELSE ReversedRange((CHOOSE m \in min_res : TRUE) + 1, native)

\* The resolutions the loop of slice_downsample visits.
DownsampleResolutions(min_res, native) ==
    IF min_res = {} THEN <<>>
    ELSE ReversedRange(CHOOSE m \in min_res : TRUE, native)

\* The resolutions the loop of slice_upsample visits.
UpsampleResolutions(max_res, native) ==
    IF max_res = {} THEN <<>>
    ELSE Range(native + 1, (CHOOSE m \in max_res : TRUE) + 1)

-----------------------------------------------------------------------------
(* State.                                                                  *)

VARIABLES
    \* The input of the run.
    mode,            \* "pyramid": TmsPyramid.slice(); "slice": TmsTiles.slice()
    image,           \* the input image
    lower_left,      \* <<x, y>>: the TMS offset of its lower-left tile
    resolution,      \* its (native) resolution
    min_resolution,  \* {} for None, {m} for m
    max_resolution,  \* {} for None, {m} for m
    content,         \* what the pixels of the image hash to
    \* The driver thread.
    pc,              \* "start", "run", "done" or "error"
    err,             \* the exception that ended the run, "" for none
    raised_by,       \* the function that raised it
    tiles,           \* the native TmsTiles (local `tiles` of TmsPyramid.slice)
    cur,             \* the TmsTiles being sliced
    plan,            \* the submissions of the running loops still to make
    down_todo,       \* resolutions slice_downsample has still to visit
    up_todo,         \* resolutions slice_upsample has still to visit
    \* Storage.
    queue,           \* the bounded work queue
    workers,         \* per worker: what it is doing, and its job
    index,           \* HashIndex: set of <<hash, first written path>>
    files,           \* paths that are regular files
    links,           \* symlinks: set of <<path, target path>>
    \* History.
    submitted,       \* every submission made, in order
    levels,          \* every TmsTiles handed to _slice, in order
    encoded,         \* per hash, the number of PNG encodings made of it
    waits,           \* number of times Storage.waitall() has returned
    \* A direct call of a VImage method.
    call,            \* the method, the image and the arguments
    result,          \* what the call returned or raised
    \* The image kernel.
    vips             \* its thread count and who has set it

inputs == <<mode, image, lower_left, resolution, min_resolution,
            max_resolution, content>>
driver == <<pc, err, raised_by, tiles, cur, plan, down_todo, up_todo>>
storage == <<queue, workers, index, files, links, encoded>>
history == <<submitted, levels, waits>>
vimage == <<call, result>>
kernel == <<vips>>
vars == <<inputs, driver, storage, history, vimage, kernel>>

\* No direct call: the run is one of TmsPyramid.slice or TmsTiles.slice.
NoCall == [op |-> "", img |-> Img(0, 0), tile |-> 0,
           x |-> <<0, 1>>, y |-> <<0, 1>>, res |-> 0, n |-> 0]
NoResult == [err |-> "", img |-> Img(0, 0)]

Workers == 1..NumWorkers
NoJob == [z |-> 0, x |-> 0, y |-> 0, h |-> <<>>]
Idle == [pc |-> "idle", job |-> NoJob]

\* The hash of a tile's pixels.  Every border tile is the canonical
\* transparent tile; the tiles of a "transparent" image equal it, those of a
\* "uniform" image equal each other, those of a "varied" image all differ.
TileHash(e) ==
    IF e.kind = "border" \/ content = "transparent" THEN <<0>>
    ELSE IF content = "uniform" THEN <<1>>
    ELSE <<2, e.z, e.x, e.y>>

\* The job Storage.save / Storage.save_border queue for a submission; the
\* path of its output is {z}/{x}-{y}-{hash}.png, the job itself.
Job(e) == [z |-> e.z, x |-> e.x, y |-> e.y, h |-> TileHash(e)]

-----------------------------------------------------------------------------
(* The inputs.                                                             *)

\* Pixel sizes of an input side: whole and half tiles up to MaxTiles tiles,
\* and the whole world.
Sides(native) ==
    {k * (TILE_SIDE \div 2) : k \in 1..(2 * MaxTiles)}
        \cup {Pow2(native) * TILE_SIDE}

InWorld(side, o, native) ==
    o * TILE_SIDE + side <= Pow2(native) * TILE_SIDE

Optional(S) == {{}} \cup {{m} : m \in S}

\* Inputs within the bounds: every placement of an image inside the world
\* of its native zoom, every content, and resolution bounds on both sides of
\* what _validate_resolutions accepts.
InitBounded ==
    /\ mode \in {"pyramid", "slice"}
    /\ resolution \in 0..MaxNative
    /\ image \in {Img(w, h) : w \in Sides(resolution), h \in Sides(resolution)}
    /\ lower_left \in {<<x, y>> : x \in 0..(Pow2(resolution) - 1),
                                  y \in 0..(Pow2(resolution) - 1)}
    /\ InWorld(image.w, lower_left[1], resolution)
    /\ InWorld(image.h, lower_left[2], resolution)
    /\ content \in {"transparent", "uniform", "varied"}
    /\ IF mode = "pyramid"
       THEN /\ min_resolution \in Optional(-1..(resolution + 1))
            /\ max_resolution \in
                   Optional((resolution - 1)..(resolution + MaxUp))
       ELSE min_resolution = {} /\ max_resolution = {}

\* The inputs of tests/test_vips.py: bluemarble.tif, the world at zoom 2
\* (test_simple, test_downsample, test_upsample), and
\* bluemarble-aligned-ll.tif, the single tile (1, 1) of zoom 2
\* (test_aligned, test_downsample_aligned).
InitFixtures ==
    /\ resolution = 2
    /\ \/ /\ image = Img(4 * TILE_SIDE, 4 * TILE_SIDE)
          /\ lower_left = <<0, 0>>
          /\ \/ /\ mode = "pyramid"
                /\ \/ min_resolution \in {{}, {0}} /\ max_resolution = {}
                   \/ min_resolution = {} /\ max_resolution = {3}
             \/ /\ mode = "slice"
                /\ min_resolution = {} /\ max_resolution = {}
       \/ /\ image = Img(TILE_SIDE, TILE_SIDE)
          /\ lower_left = <<1, 1>>
          /\ max_resolution = {}
          /\ \/ mode = "pyramid" /\ min_resolution = {0}
             \/ mode = "slice" /\ min_resolution = {}
    /\ content = "varied"

\* Inputs of two tiles at zoom 2 that start at an odd tile, so that their
\* downsampled levels are padded by tms_align on both sides.
InitSpanning ==
    /\ mode = "pyramid" /\ resolution = 2
    /\ \/ /\ image = Img(2 * TILE_SIDE, TILE_SIDE)
          /\ lower_left \in {<<1, 1>>, <<1, 2>>}
       \/ /\ image = Img(TILE_SIDE, 2 * TILE_SIDE)
          /\ lower_left = <<2, 1>>
    /\ min_resolution = {0} /\ max_resolution = {}
    /\ content = "varied"

InitInputs == InitBounded \/ InitFixtures \/ InitSpanning

\* The program before its run: TmsPyramid has not opened its image yet, the
\* image of a TmsTiles is a VImage its caller constructed.
InitProgram ==
    /\ InitInputs
    /\ pc = "start" /\ err = "" /\ raised_by = ""
    /\ tiles = NoTiles /\ cur = NoTiles
    /\ plan = <<>> /\ down_todo = <<>> /\ up_todo = <<>>
    /\ queue = <<>> /\ workers = [w \in Workers |-> Idle]
    /\ index = {} /\ files = {} /\ links = {} /\ encoded = <<>>
    /\ submitted = <<>> /\ levels = <<>> /\ waits = 0
    /\ call = NoCall /\ result = NoResult

\* The kernel as the library loads it, with the thread count unset.
Init ==
    /\ InitProgram
    /\ vips = IF mode = "pyramid" THEN Kernel(0, NumCpus)
              ELSE ConstructOne(Kernel(0, NumCpus))

-----------------------------------------------------------------------------
(* The driver.                                                             *)

Raise(e, by) ==
    /\ pc' = "error" /\ err' = e /\ raised_by' = by
    /\ UNCHANGED <<tiles, cur, plan, down_todo, up_todo, levels>>

Borders(res) ==
    GetWorldTmsBorders(image, lower_left[1], lower_left[2], resolution, res)

\* A TmsTiles enters fill_borders and _slice: how it was made (by), of which
\* TmsTiles (src) and with which levels argument (n).
Level(t, by, res, src, n) ==
    [tiles |-> t, by |-> by, res |-> res, src |-> src, n |-> n]

\* TmsPyramid.slice_native as far as its first submission: it builds the
\* native TmsTiles from the image and the dataset's lower-left offset, with
\* no check of the image size, and starts on its borders and its tiles.
SliceNative ==
    LET t == Tiles(image, lower_left[1], lower_left[2], resolution)
    IN  /\ tiles' = t /\ cur' = t
        /\ plan' = FillBorders(Borders(resolution), resolution) \o SlicePlan(t)
        /\ levels' = Append(levels, Level(t, "native", resolution, NoTiles, 0))

\* TmsPyramid.slice as far as its first submission: _validate_resolutions,
\* then slice_native.  slice_downsample and slice_upsample validate once
\* more, with the same arguments and so the same outcome; their loops run
\* once the tiles of the native level are submitted.
PyramidSlice ==
    /\ pc = "start" /\ mode = "pyramid"
    /\ IF ~ValidResolutions(min_resolution, max_resolution, resolution)
       THEN Raise("ValueError", "_validate_resolutions")
       ELSE /\ SliceNative
            /\ down_todo' = DownsampleResolutions(min_resolution, resolution)
            /\ up_todo' = UpsampleResolutions(max_resolution, resolution)
            /\ pc' = "run"
            /\ UNCHANGED <<err, raised_by>>
    /\ vips' = IF ValidResolutions(min_resolution, max_resolution, resolution)
               THEN ConstructOne(vips)
               ELSE vips
    /\ UNCHANGED <<inputs, vimage, storage, submitted, waits>>

\* TmsTiles.slice as far as its first submission.
TilesSlice ==
    /\ pc = "start" /\ mode = "slice"
    /\ LET t == Tiles(image, lower_left[1], lower_left[2], resolution)
       IN  IF ~WholeTiles(t)
           THEN Raise("ValueError", "slice")
           ELSE /\ tiles' = t /\ cur' = t
                /\ plan' = SlicePlan(t)
                /\ levels' = Append(levels, Level(t, "slice", resolution, NoTiles, 0))
                /\ pc' = "run"
                /\ UNCHANGED <<err, raised_by, down_todo, up_todo>>
    /\ UNCHANGED <<inputs, vimage, kernel, storage, submitted, waits>>

\* Storage.save / Storage.save_border: blocks while the queue is full.
Save ==
    /\ pc = "run" /\ plan # <<>> /\ Head(plan).kind # "fail"
    /\ Len(queue) < QueueCap
    /\ queue' = Append(queue, Job(Head(plan)))
    /\ submitted' = Append(submitted, Head(plan))
    /\ plan' = Tail(plan)
    /\ vips' = IF Head(plan).kind = "tile" THEN ConstructOne(vips) ELSE vips
    /\ UNCHANGED <<inputs, vimage, pc, err, raised_by, tiles, cur, down_todo,
                   up_todo,
                   workers, index, files, links, encoded, levels, waits>>

\* _slice reaches an extract_area outside the image.
ExtractFails ==
    /\ pc = "run" /\ plan # <<>> /\ Head(plan).kind = "fail"
    /\ Raise("VError", "extract_area")
    /\ UNCHANGED <<inputs, vimage, kernel, storage, submitted, waits>>

\* One pass of the loop of slice_downsample, as far as its first submission.
SliceDownsample ==
    /\ pc = "run" /\ plan = <<>> /\ down_todo # <<>>
    /\ LET res == Head(down_todo)
           d == Downsample(cur, 1)
       IN  IF d.err # "" THEN Raise(d.err, "downsample")
           ELSE /\ cur' = d.tiles
                /\ plan' = FillBorders(Borders(res), res) \o SlicePlan(d.tiles)
                /\ levels' = Append(levels, Level(d.tiles, "downsample", res, cur, 1))
                /\ down_todo' = Tail(down_todo)
                /\ UNCHANGED <<pc, err, raised_by, tiles, up_todo>>
    /\ vips' = Construct(vips, DownsampleMade(cur, 1))
    /\ UNCHANGED <<inputs, vimage, storage, submitted, waits>>

\* Mutant of SliceUpsample: each zoom is upsampled by one level from the
\* level sliced before it.
SliceUpsampleChained ==
    /\ pc = "run" /\ plan = <<>> /\ down_todo = <<>> /\ up_todo # <<>>
    /\ LET res == Head(up_todo)
           u == Upsample(cur, 1)
       IN  IF u.err # "" THEN Raise(u.err, "upsample")
           ELSE /\ cur' = u.tiles
                /\ plan' = FillBorders(Borders(res), res) \o SlicePlan(u.tiles)
                /\ levels' = Append(levels, [tiles |-> u.tiles,
                                             by |-> "upsample", res |-> res,
                                             src |-> cur, n |-> 1])
                /\ up_todo' = Tail(up_todo)
                /\ UNCHANGED <<pc, err, raised_by, tiles, down_todo>>
    /\ vips' = Construct(vips, UpsampleMade(cur, 1))
    /\ UNCHANGED <<inputs, vimage, storage, submitted, waits>>

\* One pass of the loop of slice_upsample, as far as its first submission.
SliceUpsample ==
    /\ pc = "run" /\ plan = <<>> /\ down_todo = <<>> /\ up_todo # <<>>
    /\ LET res == Head(up_todo)
           u == Upsample(tiles, res - resolution)
       IN  IF u.err # "" THEN Raise(u.err, "upsample")
           ELSE /\ cur' = u.tiles
                /\ plan' = FillBorders(Borders(res), res) \o SlicePlan(u.tiles)
                /\ levels' = Append(levels, Level(u.tiles, "upsample", res, tiles,
                                            res - resolution))
                /\ up_todo' = Tail(up_todo)
                /\ UNCHANGED <<pc, err, raised_by, tiles, down_todo>>
    /\ vips' = Construct(vips,
                       UpsampleMade(tiles, Head(up_todo) - resolution))
    /\ UNCHANGED <<inputs, vimage, storage, submitted, waits>>

\* Storage.waitall(): returns once the queue is empty and every worker idle.
Quiescent == queue = <<>> /\ \A w \in Workers : workers[w].pc = "idle"

\* Mutant of Waitall: the run returns without calling Storage.waitall().
WaitallNotCalled ==
    /\ pc = "run" /\ plan = <<>> /\ down_todo = <<>> /\ up_todo = <<>>
    /\ pc' = "done" /\ waits' = waits + 1
    /\ UNCHANGED <<inputs, vimage, kernel, err, raised_by, tiles, cur, plan, down_todo,
                   up_todo, storage, submitted, levels>>

\* Mutant of Waitall: Storage.waitall() is also called after each level.
WaitallEachLevel ==
    /\ pc = "run" /\ plan = <<>> /\ waits < 2
    /\ Quiescent
    /\ pc' = IF down_todo = <<>> /\ up_todo = <<>> THEN "done" ELSE pc
    /\ waits' = waits + 1
    /\ UNCHANGED <<inputs, vimage, kernel, err, raised_by, tiles, cur, plan, down_todo,
                   up_todo, storage, submitted, levels>>

\* The last statement of TmsPyramid.slice and of TmsTiles.slice.
Waitall ==
    /\ pc = "run" /\ plan = <<>> /\ down_todo = <<>> /\ up_todo = <<>>
    /\ Quiescent
    /\ pc' = "done" /\ waits' = waits + 1
    /\ UNCHANGED <<inputs, vimage, kernel, err, raised_by, tiles, cur, plan, down_todo,
                   up_todo, storage, submitted, levels>>

-----------------------------------------------------------------------------
(* Storage workers (section 4.3 and 5 of the specification).               *)

\* Mutant of LockFree: the lock of a hash is never waited for.
LockFreeAlways(h, w) == TRUE

\* Mutant of LockFree: a lock is never granted.
LockNeverFree(h, w) == FALSE

\* The per-hash lock: held by the worker that is writing the file of h.
LockFree(h, w) ==
    \A v \in Workers \ {w} : ~(workers[v].pc = "writing" /\ workers[v].job.h = h)

\* Mutant of Known: HashIndex consulted by path instead of by hash.
KnownPath(job) == \E e \in index : e[2] = job

\* HashIndex holds the hash of the job.
Known(job) == \E e \in index : e[1] = job.h

\* PNG-encoding the tile of hash h once more.
Encodings(h) == IF h \in DOMAIN encoded THEN encoded[h] ELSE 0
Encode(h) == [g \in DOMAIN encoded \cup {h} |->
                 IF g = h THEN Encodings(h) + 1 ELSE encoded[g]]
FirstPath(h) == (CHOOSE e \in index : e[1] = h)[2]

\* A worker takes the next job and hashes its pixels.
Take(w) ==
    /\ workers[w].pc = "idle" /\ queue # <<>>
    /\ workers' = [workers EXCEPT ![w] = [pc |-> "hashed", job |-> Head(queue)]]
    /\ queue' = Tail(queue)
    /\ UNCHANGED <<inputs, vimage, kernel, driver, index, files, links, encoded, history>>

\* Mutant of Decide: a known hash is remapped to the path of the new job.
DecideRemap(w) ==
    /\ workers[w].pc = "hashed"
    /\ LET job == workers[w].job
       IN  /\ LockFree(job.h, w)
           /\ IF Known(job)
              THEN /\ links' = links \cup {<<job, FirstPath(job.h)>>}
                   /\ index' = {e \in index : e[1] # job.h}
                                  \cup {<<job.h, job>>}
                   /\ workers' = [workers EXCEPT ![w] = Idle]
                   /\ UNCHANGED encoded
              ELSE /\ index' = index \cup {<<job.h, job>>}
                   /\ encoded' = Encode(job.h)
                   /\ workers' = [workers EXCEPT ![w].pc = "writing"]
                   /\ UNCHANGED links
    /\ UNCHANGED <<inputs, vimage, kernel, driver, queue, files, history>>

\* Under the lock of the hash: a known hash becomes a symlink to its first
\* path; an unknown one is registered and encoded, the lock kept.
Decide(w) ==
    /\ workers[w].pc = "hashed"
    /\ LET job == workers[w].job
       IN  /\ LockFree(job.h, w)
           /\ IF Known(job)
              THEN /\ links' = links \cup {<<job, FirstPath(job.h)>>}
                   /\ workers' = [workers EXCEPT ![w] = Idle]
                   /\ UNCHANGED <<index, encoded>>
              ELSE /\ index' = index \cup {<<job.h, job>>}
                   /\ encoded' = Encode(job.h)
                   /\ workers' = [workers EXCEPT ![w].pc = "writing"]
                   /\ UNCHANGED links
    /\ UNCHANGED <<inputs, vimage, kernel, driver, queue, files, history>>

\* The encoded PNG reaches its path; the lock of the hash is released.
Write(w) ==
    /\ workers[w].pc = "writing"
    /\ files' = files \cup {workers[w].job}
    /\ workers' = [workers EXCEPT ![w] = Idle]
    /\ UNCHANGED <<inputs, vimage, kernel, driver, queue, index, links, encoded, history>>

-----------------------------------------------------------------------------

Next ==
    \/ PyramidSlice
    \/ TilesSlice
    \/ Save
    \/ ExtractFails
    \/ SliceDownsample
    \/ SliceUpsample
    \/ Waitall
    \/ \E w \in Workers : Take(w)
    \/ \E w \in Workers : Decide(w)
    \/ \E w \in Workers : Write(w)

Spec == Init /\ [][Next]_vars

-----------------------------------------------------------------------------
(* Direct calls of VImage.shrink, VImage.stretch and VImage.tms_align, as  *)
(* tests/test_vips.py makes them.  A scale or an offset coordinate is the  *)
(* rational <<n, d>>; all of them are floats Python holds exactly, but for *)
(* the 0.1 and 0.2 of test_shrink.                                         *)

Call(op, img, tile, x, y) ==
    [op |-> op, img |-> img, tile |-> tile, x |-> x, y |-> y,
     res |-> 0, n |-> 0]
\* A call of TmsTiles.downsample or TmsTiles.upsample: the image, integer
\* offset and resolution of the TmsTiles, and the levels argument n.
TilesCall(op, img, ox, oy, res, n) ==
    [op |-> op, img |-> img, tile |-> TILE_SIDE, x |-> <<ox, 1>>,
     y |-> <<oy, 1>>, res |-> res, n |-> n]
CallTiles == Tiles(call.img, call.x[1], call.y[1], call.res)

\* Sizes and scales of the shrink and stretch calls.
ScaleSides == (1..MaxSide) \cup {16}
ShrinkScales == {<<n, 4>> : n \in (0 - 1)..(4 + MaxOver)}
                   \cup {<<1, 10>>, <<1, 5>>, <<2, 1>>}
StretchScales == {<<n, 2>> : n \in 1..3} \cup {<<n, 1>> : n \in 1..MaxStretch}

\* Tile sides, sizes and offsets of the tms_align calls: every size up to
\* MaxAlignTiles tiles of side 4 at every offset that is a multiple of 1/8
\* from -1/2 up to MaxOffset + 1/2, and the calls of test_tms_align.
AlignOffsets == {<<n, 8>> : n \in (0 - 4)..(8 * MaxOffset + 4)}
AlignCalls ==
    {Call("tms_align", Img(w, h), 4, x, y) :
        w \in 1..(4 * MaxAlignTiles), h \in 1..(4 * MaxAlignTiles),
        x \in AlignOffsets, y \in AlignOffsets}
    \cup {Call("tms_align", Img(16, 16), 16, <<1, 1>>, <<1, 1>>),
          Call("tms_align", Img(16, 16), 16, <<3, 2>>, <<3, 2>>),
          Call("tms_align", Img(16, 16), 32, <<1, 1>>, <<1, 1>>)}

\* The calls of TmsTiles.downsample and TmsTiles.upsample: aligned images of
\* up to MaxTiles tiles a side at every integer offset up to MaxCallOffset,
\* at resolutions up to MaxCallRes, with levels from 0 up to one more than
\* downsample accepts.
AlignedSides == {k * TILE_SIDE : k \in 1..MaxTiles}
TilesCalls ==
    {TilesCall(op, Img(w, h), ox, oy, res, n) :
        op \in {"downsample", "upsample"},
        w \in AlignedSides, h \in AlignedSides,
        ox \in 0..MaxCallOffset, oy \in 0..MaxCallOffset,
        res \in 0..MaxCallRes, n \in 0..(MaxCallRes + 1)}

Calls ==
    {Call("shrink", Img(w, h), 0, x, y) :
        w \in ScaleSides, h \in ScaleSides,
        x \in ShrinkScales, y \in ShrinkScales}
    \cup {Call("stretch", Img(w, h), 0, x, y) :
        w \in ScaleSides, h \in ScaleSides,
        x \in StretchScales, y \in StretchScales}
    \cup AlignCalls
    \cup {c \in TilesCalls :
             IF c.op = "downsample" THEN c.n <= c.res + 1 ELSE c.n <= MaxUpLevels}

InitVImage ==
    /\ call \in Calls /\ result = NoResult
    /\ mode = "vimage" /\ image = call.img /\ lower_left = <<0, 0>>
    /\ resolution = 0 /\ min_resolution = {} /\ max_resolution = {}
    /\ content = "varied"
    /\ pc = "start" /\ err = "" /\ raised_by = ""
    /\ tiles = NoTiles /\ cur = NoTiles
    /\ plan = <<>> /\ down_todo = <<>> /\ up_todo = <<>>
    /\ queue = <<>> /\ workers = [w \in Workers |-> Idle]
    /\ index = {} /\ files = {} /\ links = {} /\ encoded = <<>>
    /\ submitted = <<>> /\ levels = <<>> /\ waits = 0
    /\ vips = ConstructOne(Kernel(0, NumCpus))

\* The call returns or raises.
Return(r) ==
    /\ result' = r
    /\ pc' = IF r.err = "" THEN "done" ELSE "error"
    /\ err' = r.err
    /\ raised_by' = IF r.err = "" THEN "" ELSE call.op
    /\ UNCHANGED <<inputs, tiles, cur, plan, down_todo, up_todo, storage,
                   history>>

ShrinkCall ==
    /\ mode = "vimage" /\ pc = "start" /\ call.op = "shrink"
    /\ Return(Shrink(call.img, call.x, call.y))
    /\ vips' = Construct(vips, ShrinkMade(call.img, call.x, call.y))
    /\ UNCHANGED call

StretchCall ==
    /\ mode = "vimage" /\ pc = "start" /\ call.op = "stretch"
    /\ Return(Stretch(call.img, call.x, call.y))
    /\ vips' = Construct(vips, StretchMade(call.img, call.x, call.y))
    /\ UNCHANGED call

TmsAlignCall ==
    /\ mode = "vimage" /\ pc = "start" /\ call.op = "tms_align"
    /\ Return(TmsAlign(call.img, call.tile, call.tile, call.x, call.y))
    /\ vips' = Construct(vips, AlignMade(call.img, call.tile, call.tile,
                                         call.x, call.y))
    /\ UNCHANGED call

\* tms_align once more, on the image the first call returned and with the
\* offset truncated, as TmsTiles.downsample keeps them.
TmsAlignAgain ==
    /\ mode = "vimage" /\ pc = "done" /\ call.op = "tms_align"
    /\ LET again == Call("tms_align_again", result.img, call.tile,
                         <<IntTrunc(call.x[1], call.x[2]), 1>>,
                         <<IntTrunc(call.y[1], call.y[2]), 1>>)
       IN  /\ call' = again
           /\ Return(TmsAlign(again.img, again.tile, again.tile,
                              again.x, again.y))
           /\ vips' = Construct(vips, AlignMade(again.img, again.tile,
                                                again.tile, again.x, again.y))

\* TmsTiles.downsample(levels = n), and the start of n calls of
\* downsample(levels = 1), each on what the one before returned.
DownsampleCall ==
    /\ mode = "vimage" /\ pc = "start" /\ call.op = "downsample"
    /\ LET d == DownsamplePlaced(CallTiles, WholeImage(CallTiles), call.n)
       IN  /\ result' = [err |-> d.err, img |-> TilesImage(d.tiles),
                         direct |-> d,
                         chain |-> [err |-> "", tiles |-> CallTiles,
                                    rect |-> WholeImage(CallTiles)],
                         left |-> call.n]
           /\ pc' = IF d.err = "" THEN "chain" ELSE "error"
           /\ err' = d.err
           /\ raised_by' = IF d.err = "" THEN "" ELSE call.op
    /\ vips' = Construct(vips, DownsampleMade(CallTiles, call.n))
    /\ UNCHANGED <<inputs, call, tiles, cur, plan, down_todo, up_todo, storage,
                   history>>

\* The next downsample(levels = 1) of the chain.
DownsampleOnce ==
    /\ mode = "vimage" /\ pc = "chain" /\ call.op = "downsample"
    /\ LET c == DownsamplePlaced(result.chain.tiles, result.chain.rect, 1)
       IN  /\ result' = [result EXCEPT !.chain = c, !.left = @ - 1]
           /\ pc' = IF c.err # "" THEN "error"
                    ELSE IF result.left = 1 THEN "done" ELSE "chain"
           /\ err' = c.err
           /\ raised_by' = IF c.err = "" THEN "" ELSE call.op
    /\ vips' = Construct(vips, DownsampleMade(result.chain.tiles, 1))
    /\ UNCHANGED <<inputs, call, tiles, cur, plan, down_todo, up_todo, storage,
                   history>>

\* TmsTiles.upsample(levels = n).
UpsampleCall ==
    /\ mode = "vimage" /\ pc = "start" /\ call.op = "upsample"
    /\ LET u == Upsample(CallTiles, call.n)
       IN  /\ result' = [err |-> u.err, img |-> TilesImage(u.tiles),
                         tiles |-> u.tiles]
           /\ pc' = IF u.err = "" THEN "done" ELSE "error"
           /\ err' = u.err
           /\ raised_by' = IF u.err = "" THEN "" ELSE call.op
    /\ vips' = Construct(vips, UpsampleMade(CallTiles, call.n))
    /\ UNCHANGED <<inputs, call, tiles, cur, plan, down_todo, up_todo, storage,
                   history>>

NextVImage ==
    \/ ShrinkCall
    \/ StretchCall
    \/ TmsAlignCall
    \/ TmsAlignAgain
    \/ DownsampleCall
    \/ DownsampleOnce
    \/ UpsampleCall

SpecVImage == InitVImage /\ [][NextVImage]_vars

-----------------------------------------------------------------------------
(* Fair scheduling: every Storage worker takes its next step when it stays *)
(* possible, and the driver leaves save() and waitall() when Storage lets  *)
(* it.                                                                     *)

WorkerStep(w) == Take(w) \/ Decide(w) \/ Write(w)

\* The runs followed under fair scheduling: at native zoom 1, one tile, the
\* whole world and an image of half a tile, with the resolutions
\* _validate_resolutions accepts.
InitFair ==
    /\ Init
    /\ resolution = 1 /\ lower_left = <<0, 0>>
    /\ image \in {Img(TILE_SIDE, TILE_SIDE),
                  Img(2 * TILE_SIDE, 2 * TILE_SIDE),
                  Img(TILE_SIDE \div 2, TILE_SIDE)}
    /\ content \in {"uniform", "varied"}
    /\ min_resolution \in {{}, {0}}
    /\ max_resolution \in {{}, {2}}

FairSpec ==
    /\ InitFair /\ [][Next]_vars
    /\ WF_vars(Save) /\ WF_vars(Waitall)
    /\ \A w \in Workers : WF_vars(WorkerStep(w))

-----------------------------------------------------------------------------
(* The runs under every state the kernel can be in when the program        *)
(* starts: on machines of 1 to MaxCpus processors, with the thread count   *)
(* unset or set beforehand through LibVips.set_concurrency.                *)

KernelStates == {Kernel(c, n) : c \in 0..MaxCpus, n \in 1..MaxCpus}

InitKernel ==
    /\ InitProgram
    /\ resolution = 1 /\ lower_left = <<0, 0>>
    /\ image \in {Img(TILE_SIDE, TILE_SIDE),
                  Img(TILE_SIDE \div 2, TILE_SIDE)}
    /\ content = "varied"
    /\ min_resolution \in {{}, {0}}
    /\ max_resolution \in {{}, {2}}
    /\ \E k \in KernelStates :
          vips = IF mode = "pyramid" THEN k ELSE ConstructOne(k)

SpecKernel == InitKernel /\ [][Next]_vars

-----------------------------------------------------------------------------
(* Properties.                                                             *)

\* The jobs of the submissions made so far, and what has become of one.
SubmittedJobs == {Job(submitted[i]) : i \in 1..Len(submitted)}
IsLink(p) == \E l \in links : l[1] = p
OnDisk(p) == p \in files \/ IsLink(p)

\* C1: whatever the interleaving of the workers, a hash is PNG-encoded and
\* written as a regular file exactly once: no hash is encoded twice, no two
\* regular files carry the same hash, and once Storage has worked off the
\* submissions made so far each of their hashes has its one regular file
\* while every other submission of that hash is a symlink.
C1_OneFilePerHash ==
    /\ \A h \in DOMAIN encoded : encoded[h] = 1
    /\ \A p \in files : \A q \in files : p.h = q.h => p = q
    /\ Quiescent =>
         \A p \in SubmittedJobs :
            /\ Encodings(p.h) = 1
            /\ Cardinality({q \in files : q.h = p.h}) = 1
            /\ p \notin files => IsLink(p)
            /\ ~(p \in files /\ IsLink(p))

\* Witness of C1: Storage has worked off a run in which a hash was submitted
\* at least three times, leaving one regular file and two symlinks to it.
C1_Witness ==
    /\ pc = "done"
    /\ \E p \in files :
          Cardinality({l \in links : l[2] = p /\ l[1].h = p.h}) >= 2

\* C2: every symlink points to a regular file, not a symlink, of the same
\* hash that is already on disk; no symlink is ever dangling.
C2_NoDanglingSymlink ==
    \A l \in links :
        /\ l[2] \in files
        /\ ~IsLink(l[2])
        /\ l[2].h = l[1].h

\* Witness of C2: a worker holds a submission whose hash is in HashIndex
\* while another worker is still writing the file of that hash.
C2_Witness ==
    \E w \in Workers :
        /\ workers[w].pc = "hashed"
        /\ Known(workers[w].job)
        /\ \E v \in Workers \ {w} :
              /\ workers[v].pc = "writing"
              /\ workers[v].job.h = workers[w].job.h
              /\ workers[v].job \notin files

\* C3: when waitall() has returned every submission made before it is on
\* disk, as a regular file or as a symlink, and the run returns only after
\* waitall() has: on return every tile of every zoom produced is on disk.
C3_DurableOnReturn ==
    /\ waits > 0 => \A p \in SubmittedJobs : OnDisk(p)
    /\ pc = "done" =>
          /\ waits = 1
          /\ plan = <<>> /\ down_todo = <<>> /\ up_todo = <<>>
          /\ \A i \in 1..Len(levels) :
                \A e \in {SlicePlan(levels[i].tiles)[k] :
                             k \in 1..Len(SlicePlan(levels[i].tiles))} :
                   OnDisk(Job(e))

\* Witness of C3: a pyramid run over three zooms has returned.
C3_Witness ==
    /\ pc = "done" /\ mode = "pyramid"
    /\ Len(levels) >= 3 /\ Len(submitted) >= 3

\* C4: a pyramid run whose min_resolution is outside 0 <= min < native or
\* whose max_resolution is below native ends in the ValueError of
\* _validate_resolutions with nothing submitted to Storage and no waitall();
\* with min in [0, native) and max >= native the validation raises nothing
\* and the native level is built.
C4_BadResolution ==
    LET bad == \/ \E m \in min_resolution : ~(0 <= m /\ m < resolution)
               \/ \E m \in max_resolution : m < resolution
    IN  mode = "pyramid" =>
          /\ bad =>
               /\ pc \in {"start", "error"}
               /\ pc = "error" =>
                     err = "ValueError" /\ raised_by = "_validate_resolutions"
               /\ submitted = <<>> /\ queue = <<>> /\ levels = <<>>
               /\ files = {} /\ links = {} /\ waits = 0
          /\ ~bad =>
               /\ raised_by # "_validate_resolutions"
               /\ pc # "start" => levels # <<>>

\* Witness of C4: a run asked for min_resolution = native has been refused.
C4_Witness ==
    /\ mode = "pyramid" /\ pc = "error"
    /\ min_resolution = {resolution} /\ max_resolution = {resolution}

\* The input image holds a whole number of tiles in both directions.
AlignedInput == image.w % TILE_SIDE = 0 /\ image.h % TILE_SIDE = 0
GoodResolutions ==
    /\ \A m \in min_resolution : 0 <= m /\ m < resolution
    /\ \A m \in max_resolution : m >= resolution

\* C5: a pyramid run on an input whose width or height is not a whole number
\* of tiles ends in the ValueError for unaligned input when the native level
\* is built: the level is never handed to _slice and none of its tiles is
\* submitted.
C5_UnalignedPyramidFails ==
    (mode = "pyramid" /\ GoodResolutions /\ ~AlignedInput) =>
        /\ pc \in {"start", "error"}
        /\ pc = "error" => err = "ValueError"
        /\ levels = <<>>
        /\ submitted = <<>>

\* C6: TmsTiles.slice on an image whose width or height is not a multiple of
\* the tile side ends in the ValueError of slice with nothing submitted and
\* no waitall(); on an aligned image it submits every tile and then calls
\* waitall(), once.
C6_SliceChecksAlignment ==
    mode = "slice" =>
        /\ ~AlignedInput =>
             /\ pc \in {"start", "error"}
             /\ pc = "error" => err = "ValueError" /\ raised_by = "slice"
             /\ submitted = <<>> /\ queue = <<>> /\ waits = 0
        /\ AlignedInput =>
             /\ pc # "error"
             /\ waits <= 1
             /\ waits = 1 <=> pc = "done"
             /\ waits = 1 =>
                  /\ Len(submitted) =
                        (image.w \div TILE_SIDE) * (image.h \div TILE_SIDE)
                  /\ \A i \in 1..Len(submitted) : submitted[i].kind = "tile"

\* Witness of C6: slice has refused an image of a whole number of tiles in
\* width and half a tile too much in height.
C6_Witness ==
    /\ mode = "slice" /\ pc = "error"
    /\ image.w % TILE_SIDE = 0 /\ image.h % TILE_SIDE # 0

\* The tiles submitted by save at zoom z, as indices of the history.
TilesAt(z) ==
    {i \in 1..Len(submitted) : submitted[i].kind = "tile" /\ submitted[i].z = z}
\* The level at position k of the history has been sliced to its end.
Sliced(k) == k < Len(levels) \/ (plan = <<>> /\ pc \in {"run", "done"})

\* C7: slicing a level of W by H pixels, both multiples of T, at integer
\* offset (ox, oy) submits exactly one tile for each grid cell (x, y) of
\* {0, T, .., W - T} x {0, T, .., H - T}, at zoom = resolution and address
\* (x / T + ox, (H - y) / T + oy - 1); the addresses are exactly
\* {ox .. ox + W/T - 1} x {oy .. oy + H/T - 1}, each once, and the top pixel
\* row gets the largest tms_y.
C7_SliceAddresses ==
    \A k \in 1..Len(levels) :
        LET t == levels[k].tiles
            T == TILE_SIDE
            S == TilesAt(t.res)
            grid == {<<m * T, n * T>> :
                        m \in 0..(t.w \div T - 1), n \in 0..(t.h \div T - 1)}
            rect == {<<x, y>> : x \in t.ox..(t.ox + t.w \div T - 1),
                                y \in t.oy..(t.oy + t.h \div T - 1)}
        IN  (t.w % T = 0 /\ t.h % T = 0 /\ Sliced(k)) =>
              /\ \A c \in grid :
                    Cardinality({i \in S : submitted[i].px = c[1]
                                           /\ submitted[i].py = c[2]}) = 1
              /\ \A i \in S :
                    /\ <<submitted[i].px, submitted[i].py>> \in grid
                    /\ submitted[i].x = submitted[i].px \div T + t.ox
                    /\ submitted[i].y =
                          (t.h - submitted[i].py) \div T + t.oy - 1
                    /\ submitted[i].py = 0 =>
                          submitted[i].y = t.oy + t.h \div T - 1
              /\ {<<submitted[i].x, submitted[i].y>> : i \in S} = rect
              /\ Cardinality(S) = Cardinality(rect)

\* Witness of C7: slice has cut an image two tiles high that does not start
\* at column 0 of the world.
C7_Witness ==
    /\ mode = "slice" /\ pc = "done"
    /\ image.h = 2 * TILE_SIDE /\ lower_left[1] > 0
    /\ Len(submitted) >= 2

\* The zooms of a run in the order claimed: the native zoom, then down to
\* min_resolution when it is set, then up to max_resolution when it is set.
ExpectedZooms ==
    LET lo == IF min_resolution = {} THEN resolution
              ELSE CHOOSE m \in min_resolution : TRUE
        hi == IF max_resolution = {} THEN resolution
              ELSE CHOOSE m \in max_resolution : TRUE
        nd == resolution - lo
    IN  [i \in 1..(1 + nd + (hi - resolution)) |->
            IF i = 1 THEN resolution
            ELSE IF i <= 1 + nd THEN resolution - (i - 1)
            ELSE resolution + (i - 1 - nd)]
ZoomPosition(z) == CHOOSE i \in 1..Len(ExpectedZooms) : ExpectedZooms[i] = z

\* C8: a pyramid run slices the native zoom first, then native - 1 down to
\* min_resolution, then native + 1 up to max_resolution; each zoom of that
\* list is sliced exactly once, borders and tiles of a level carry its zoom,
\* submissions follow the order of the list and none is of another zoom.
C8_ZoomOrder ==
    (mode = "pyramid" /\ GoodResolutions) =>
        /\ Len(levels) <= Len(ExpectedZooms)
        /\ \A k \in 1..Len(levels) :
              /\ levels[k].tiles.res = ExpectedZooms[k]
              /\ levels[k].res = ExpectedZooms[k]
        /\ pc = "done" => Len(levels) = Len(ExpectedZooms)
        /\ \A i \in 1..Len(submitted) :
              /\ \E k \in 1..Len(levels) : submitted[i].z = ExpectedZooms[k]
              /\ i > 1 => ZoomPosition(submitted[i - 1].z)
                             <= ZoomPosition(submitted[i].z)

\* Witness of C8: a run with both bounds set has returned, having sliced the
\* native zoom, one zoom below it and one above it.
C8_Witness ==
    /\ mode = "pyramid" /\ pc = "done"
    /\ min_resolution # {} /\ max_resolution # {}
    /\ Len(levels) >= 3
    /\ levels[2].tiles.res < resolution /\ levels[3].tiles.res > resolution

\* The input covers the whole world of its native zoom.
WorldInput ==
    /\ image = Img(Pow2(resolution) * TILE_SIDE, Pow2(resolution) * TILE_SIDE)
    /\ lower_left = <<0, 0>>

\* C9: for an input that covers the world at its native zoom, a run that has
\* returned has produced at every zoom z of its list exactly 4^z tiles, at
\* the addresses {0 .. 2^z - 1} x {0 .. 2^z - 1}, and nothing else: 1, 4, 16
\* and 64 tiles at zooms 0, 1, 2 and 3.
C9_WorldPyramid ==
    (mode = "pyramid" /\ WorldInput /\ pc = "done") =>
        /\ \A i \in 1..Len(ExpectedZooms) :
              LET z == ExpectedZooms[i]
                  at == {j \in 1..Len(submitted) : submitted[j].z = z}
                  side == 0..(Pow2(z) - 1)
              IN  /\ {<<submitted[j].x, submitted[j].y>> : j \in at}
                        = side \X side
                  /\ Cardinality(at) = Pow2(2 * z)
                  /\ z <= 3 => Cardinality(at) = <<1, 4, 16, 64>>[z + 1]
                  /\ \A j \in at : submitted[j].kind = "tile"
        /\ \A j \in 1..Len(submitted) :
              \E i \in 1..Len(ExpectedZooms) : submitted[j].z = ExpectedZooms[i]

\* Witness of C9: the world at native zoom 2 has been upsampled to zoom 3,
\* with 64 tiles there.
C9_Witness ==
    /\ mode = "pyramid" /\ WorldInput /\ pc = "done"
    /\ resolution = 2 /\ max_resolution = {3}
    /\ Cardinality(TilesAt(3)) = 64 /\ Cardinality(TilesAt(2)) = 16

\* A level of exactly one tile.
OneTile(t) == t.w = TILE_SIDE /\ t.h = TILE_SIDE

\* Downsampling by one level a level of one tile at (ox, oy) gives a level of
\* one tile at (floor(ox / 2), floor(oy / 2)), one resolution lower.
SingleTileDownsample ==
    \A k \in 2..Len(levels) :
        (levels[k].by = "downsample" /\ OneTile(levels[k - 1].tiles)) =>
            /\ OneTile(levels[k].tiles)
            /\ levels[k].tiles.ox = levels[k - 1].tiles.ox \div 2
            /\ levels[k].tiles.oy = levels[k - 1].tiles.oy \div 2
            /\ levels[k].tiles.res = levels[k - 1].tiles.res - 1

\* The run of test_downsample_aligned: tile (1, 1) of zoom 2, min_resolution 0.
AlignedFixture ==
    /\ mode = "pyramid" /\ resolution = 2
    /\ image = Img(TILE_SIDE, TILE_SIDE) /\ lower_left = <<1, 1>>
    /\ min_resolution = {0} /\ max_resolution = {}

Address(e) == <<e.z, e.x, e.y>>
AlignedFixtureTiles == {<<2, 1, 1>>, <<1, 0, 0>>, <<0, 0, 0>>}

-----------------------------------------------------------------------------
(* Properties of the direct VImage calls.                                  *)

Returned(op) == mode = "vimage" /\ call.op = op /\ pc \in {"done", "error"}
Abs(n) == IF n >= 0 THEN n ELSE 0 - n

\* k is the floor of the rational n / d, d > 0.
IsFloor(k, n, d) == k * d <= n /\ n < (k + 1) * d

\* The scale <<n, d>> lies in (0, 1]; it is an integer.
InUnit(sc) == 0 < sc[1] /\ sc[1] <= sc[2]
IsWhole(sc) == sc[1] % sc[2] = 0

C12_Stretch ==
    Returned("stretch") =>
        IF call.x[1] < call.x[2] \/ call.y[1] < call.y[2]
        THEN pc = "error" /\ err = "ValueError" /\ result = Fail("ValueError")
        ELSE (IsWhole(call.x) /\ IsWhole(call.y)) =>
                LET sx == call.x[1] \div call.x[2]
                    sy == call.y[1] \div call.y[2]
                IN  /\ pc = "done" /\ result.err = ""
                    /\ result.img = Img(call.img.w * sx, call.img.h * sy)
                    /\ sx + result.img.w <= (call.img.w + 2) * sx
                    /\ sy + result.img.h <= (call.img.h + 2) * sy

\* Witness of C12: a 16 x 16 image stretched by (3, 5) is 48 x 80.
C12_Witness ==
    /\ Returned("stretch") /\ pc = "done"
    /\ call.img = Img(16, 16) /\ call.x = <<3, 1>> /\ call.y = <<5, 1>>
    /\ result.img = Img(48, 80)

\* C13: tms_align with an integer offset on an image whose sides are
\* multiples of the tile side returns the image unchanged; so does a second
\* tms_align, with the truncated offset, on what a first one returned.
C13_AlignedUnchanged ==
    /\ (Returned("tms_align") /\ IsWhole(call.x) /\ IsWhole(call.y)
          /\ call.img.w % call.tile = 0 /\ call.img.h % call.tile = 0) =>
            pc = "done" /\ result = Ok(call.img)
    /\ Returned("tms_align_again") =>
            pc = "done" /\ result = Ok(call.img)

\* Witness of C13: a second tms_align has returned the 8 x 8 image that a
\* first one made of a smaller image.
C13_Witness ==
    /\ Returned("tms_align_again") /\ pc = "done"
    /\ call.tile = 4 /\ call.img = Img(8, 8) /\ result.img = Img(8, 8)

\* round(n / d), halves away from zero, as the integer nearest to n / d.
RoundHalfAway(n, d) ==
    CHOOSE r \in (0 - MaxRound)..MaxRound :
        \/ 2 * Abs(n - r * d) < d
        \/ 2 * Abs(n - r * d) = d /\ Abs(r * d) > Abs(n)

\* The least positive multiple of tile that is at least size + off / 2.
PaddedSide(size, off, tile) ==
    tile * (CHOOSE k \in 1..MaxRound :
                /\ 2 * k * tile >= 2 * size + off
                /\ 2 * (k - 1) * tile < 2 * size + off)

\* C14: for every image size, tile side and non-negative offset tms_align
\* returns an image of ceil((W + x / 2) / T) * T by ceil((H + y / 2) / T) * T
\* with x = round(ox * T) mod T and y = round(H - oy * T) mod T, both
\* positive multiples of T; a T x T image at offset (1.5, 1.5) becomes
\* 2T x 2T and a T/2 x T/2 image at offset (1, 1) becomes T x T.
C14_TmsAlignSize ==
    Returned("tms_align") =>
        LET T == call.tile
            W == call.img.w
            H == call.img.h
            x == RoundHalfAway(call.x[1] * T, call.x[2]) % T
            y == RoundHalfAway(H * call.y[2] - call.y[1] * T, call.y[2]) % T
        IN  /\ pc = "done" /\ result.err = ""
            /\ result.img = Img(PaddedSide(W, x, T), PaddedSide(H, y, T))
            /\ result.img.w > 0 /\ result.img.w % T = 0
            /\ result.img.h > 0 /\ result.img.h % T = 0
            /\ (W = T /\ H = T /\ 2 * call.x[1] = 3 * call.x[2]
                  /\ 2 * call.y[1] = 3 * call.y[2]) =>
                    result.img = Img(2 * T, 2 * T)
            /\ (2 * W = T /\ 2 * H = T /\ call.x[1] = call.x[2]
                  /\ call.y[1] = call.y[2]) =>
                    result.img = Img(T, T)

\* Witness of C14: the 16 x 16 image of test_tms_align at offset (1.5, 1.5)
\* with tiles of 16 has become 32 x 32.
C14_Witness ==
    /\ Returned("tms_align") /\ pc = "done"
    /\ call = Call("tms_align", Img(16, 16), 16, <<3, 2>>, <<3, 2>>)
    /\ result.img = Img(32, 32)

-----------------------------------------------------------------------------
(* Properties of the runs, continued.                                      *)

\* The tiles of the world at zoom z that meet the footprint of the input,
\* and the border set of zoom z.
FootprintTiles(z) ==
    {c \in (0..(Pow2(z) - 1)) \X (0..(Pow2(z) - 1)) :
        MeetsFootprint(image, lower_left[1], lower_left[2], resolution, z,
                       c[1], c[2])}
BorderSet(z) == {Borders(z)[i] : i \in 1..Len(Borders(z))}
SubmittedAt(z) == {i \in 1..Len(submitted) : submitted[i].z = z}

BordersSubmitted(z) ==
    LET IsBorder(e) == e.kind = "border" /\ e.z = z
    IN  SelectSeq(submitted, IsBorder)
BorderJobs ==
    {Job(submitted[i]) :
        i \in {j \in 1..Len(submitted) : submitted[j].kind = "border"}}
\* The regular file a path resolves to.
Resolve(p) == IF p \in files THEN p ELSE (CHOOSE l \in links : l[1] = p)[2]

C17_WaitallOnce ==
    mode = "pyramid" =>
        /\ waits <= 1
        /\ waits = 1 <=> pc = "done"
        /\ (plan # <<>> \/ down_todo # <<>> \/ up_todo # <<>>) => waits = 0
        /\ waits = 1 =>
              /\ Len(levels) = Len(ExpectedZooms)
              /\ \A k \in 1..Len(levels) :
                    Cardinality(TilesAt(levels[k].res))
                       = (levels[k].tiles.w \div TILE_SIDE)
                            * (levels[k].tiles.h \div TILE_SIDE)

\* Witness of C17: a run over three zooms has returned, after one waitall().
C17_Witness ==
    /\ mode = "pyramid" /\ pc = "done" /\ waits = 1
    /\ Len(levels) = 3 /\ Len(submitted) > 3

\* The driver is in Storage.waitall(); it is in a save() or save_border()
\* that the full queue does not accept.
InWaitall ==
    pc = "run" /\ plan = <<>> /\ down_todo = <<>> /\ up_todo = <<>>
SaveBlocked ==
    /\ pc = "run" /\ plan # <<>> /\ Head(plan).kind # "fail"
    /\ Len(queue) >= QueueCap

\* C18: under fair scheduling waitall() eventually returns, and when it has
\* returned the queue is empty and every worker idle; a save() blocked by
\* the full queue is eventually accepted: the number of submissions made,
\* which only a save() that is accepted changes, and by one, changes parity.
C18_WaitallReturns ==
    /\ [](pc = "done" => Quiescent)
    /\ InWaitall ~> pc = "done"
    /\ \A b \in {0, 1} :
          (SaveBlocked /\ Len(submitted) % 2 = b) ~> (Len(submitted) % 2 # b)

\* Witness of C18: waitall() has returned after more submissions than the
\* queue and the workers hold together, so that a save() was blocked or the
\* workers kept pace.
C18_Witness ==
    /\ pc = "done" /\ Quiescent
    /\ Len(submitted) > 4 * (QueueCap + NumWorkers)

\* C19: the HashIndex is empty at process start and only grows: no step
\* removes an entry, and a hash is mapped to one path, the first written,
\* which no later submission changes.
C19_HashIndexGrows ==
    /\ index = {}
    /\ [][index \subseteq index']_vars
    /\ [](\A e \in index : \A f \in index : e[1] = f[1] => e = f)

\* Witness of C19: two hashes are in the index and a later submission of a
\* known hash has become a symlink.
C19_Witness ==
    /\ Cardinality(index) >= 2 /\ links # {}
    /\ \A l \in links : <<l[2].h, l[2]>> \in index

-----------------------------------------------------------------------------
(* Properties of the direct TmsTiles calls.                                *)

\* C21: downsample(levels = k), 1 <= k <= resolution, of an aligned
\* TmsTiles with an integer offset returns what k calls of
\* downsample(levels = 1) in succession return: the same image size, the
\* same place of the first image inside it, the same offset and resolution.
C21_DownsampleIterated ==
    (Returned("downsample") /\ pc = "done") =>
        /\ result.direct.tiles = result.chain.tiles
        /\ result.direct.rect = result.chain.rect

\* C23: tms_align never fails its assertion: for every image size, tile
\* side and offset, when it returns the image it was given (the size it
\* computed is the size of the image), x = round(ox * T) mod T and
\* y = round(H - oy * T) mod T are both 0.
C23_AssertionHolds ==
    (Returned("tms_align") \/ Returned("tms_align_again")) =>
        LET T == call.tile
            x == RoundHalfAway(call.x[1] * T, call.x[2]) % T
            y == RoundHalfAway(call.img.h * call.y[2] - call.y[1] * T,
                               call.y[2]) % T
        IN  /\ result.err # "AssertionError"
            /\ result.img = call.img => x = 0 /\ y = 0

\* Witness of C23: tms_align has returned a 4 x 4 image unchanged at offset
\* (15/8, 1/8) with tiles of 4, where 7.5 rounds to 8 and 3.5 to 4.
C23_Witness ==
    /\ Returned("tms_align") /\ pc = "done"
    /\ call.tile = 4 /\ call.img = Img(4, 4)
    /\ call.x = <<15, 8>> /\ call.y = <<1, 8>>
    /\ result = Ok(call.img)

\* The addresses _slice gives the tiles of a TmsTiles, and the descendants
\* of an address s times finer.
TileAddresses(t) ==
    {<<SlicePlan(t)[i].x, SlicePlan(t)[i].y>> : i \in 1..Len(SlicePlan(t))}
Descendants(a, s) ==
    {<<a[1] * s + i, a[2] * s + j>> : i \in 0..(s - 1), j \in 0..(s - 1)}

\* C24: upsample(levels = n), n >= 1, of a TmsTiles of W x H pixels, both
\* multiples of the tile side, at integer offset (ox, oy) and resolution r
\* returns a TmsTiles of W * 2^n x H * 2^n pixels at offset
\* (ox * 2^n, oy * 2^n) and resolution r + n, the size stretch gave it;
\* _slice cuts it into one tile for each of the 4^n descendants
\* (x * 2^n + i, y * 2^n + j), 0 <= i, j < 2^n, of each tile (x, y) of the
\* source.
C24_Upsample ==
    (Returned("upsample") /\ call.n >= 1) =>
        LET t == CallTiles
            s == Pow2(call.n)
            up == result.tiles
            plan_up == SlicePlan(up)
        IN  /\ pc = "done" /\ result.err = ""
            /\ up = Tiles(Img(t.w * s, t.h * s), t.ox * s, t.oy * s,
                          t.res + call.n)
            /\ TilesImage(up)
                 = Stretch(TilesImage(t), <<s, 1>>, <<s, 1>>).img
            /\ \A i \in 1..Len(plan_up) :
                  plan_up[i].kind = "tile" /\ plan_up[i].z = t.res + call.n
            /\ TileAddresses(up)
                 = UNION {Descendants(a, s) : a \in TileAddresses(t)}
            /\ Len(plan_up) = Cardinality(TileAddresses(up))
            /\ Len(plan_up) = s * s * Len(SlicePlan(t))

\* Witness of C24: upsample(levels = 2) of a 512 x 256 TmsTiles at offset
\* (1, 3) and resolution 2 has returned 2048 x 1024 pixels at offset (4, 12)
\* and resolution 4.
C24_Witness ==
    /\ Returned("upsample") /\ pc = "done"
    /\ call.n = 2 /\ call.res = 2
    /\ call.img = Img(2 * TILE_SIDE, TILE_SIDE)
    /\ call.x = <<1, 1>> /\ call.y = <<3, 1>>
    /\ result.tiles = Tiles(Img(8 * TILE_SIDE, 4 * TILE_SIDE), 4, 12, 4)

\* C26: tms_align never crops the image it is given: for every image
\* size, tile side and offset, the image lies inside the one returned,
\* x + W <= W' and y + H <= H' for the place (x, y) it is embedded at.
C26_NeverCrops ==
    (Returned("tms_align") /\ pc = "done") =>
        LET at == EmbedAt(call.img, call.tile, call.tile, call.x, call.y)
        IN  /\ at[1] + call.img.w <= result.img.w
            /\ at[2] + call.img.h <= result.img.h

\* C27: downsample(levels = 1) of a TmsTiles of whole tiles at integer
\* offset (ox, oy) puts the half-size image into the image it returns with
\* its lower-left corner frac(ox / 2) * T pixels right of and
\* frac(oy / 2) * T pixels above the lower-left corner, inside it, and
\* gives the new TmsTiles the offset (floor(ox / 2), floor(oy / 2)); so the
\* corner stays at (ox * T / 2, oy * T / 2) of the lower zoom.  Lengths are
\* in half pixels.
C27_DownsamplePlacement ==
    (Returned("downsample") /\ pc = "done" /\ call.n = 1) =>
        \A r \in {result.direct, result.chain} :
            LET t == CallTiles
                T == TILE_SIDE
                new == r.tiles
                left == r.rect.left
                bottom == 2 * new.h - r.rect.top - r.rect.h
            IN  /\ r.rect.d = 2 /\ r.rect.w = t.w /\ r.rect.h = t.h
                /\ left = (t.ox % 2) * T
                /\ bottom = (t.oy % 2) * T
                /\ new.ox = t.ox \div 2 /\ new.oy = t.oy \div 2
                /\ new.res = t.res - 1
                /\ 2 * new.ox * T + left = t.ox * T
                /\ 2 * new.oy * T + bottom = t.oy * T
                /\ left + r.rect.w <= 2 * new.w
                /\ r.rect.top >= 0

\* Witness of C27: a 512 x 256 TmsTiles at the odd offset (1, 3) has been
\* downsampled by one level; its half-size image lies half a tile right of
\* and above the lower-left corner of the 512 x 256 image returned.
C27_Witness ==
    /\ Returned("downsample") /\ pc = "done" /\ call.n = 1
    /\ call.img = Img(2 * TILE_SIDE, TILE_SIDE)
    /\ call.x = <<1, 1>> /\ call.y = <<3, 1>>
    /\ result.chain.tiles.w = 2 * TILE_SIDE
    /\ result.chain.tiles.h = TILE_SIDE
    /\ result.chain.rect.left = TILE_SIDE
    /\ result.chain.rect.top = 0

-----------------------------------------------------------------------------
(* Properties of the image kernel's state.                                 *)

\* C25: the program sets the kernel's thread count at most once, and
\* exactly once when it starts unset: the construction of a VImage that
\* reads 0 sets it to cpu_count(); once it is not 0 no construction, of an
\* opened image or through from_vimage, changes it.
C25_ConcurrencySetOnce ==
    /\ [](/\ vips.sets <= 1
          /\ vips.made = 0 => vips.sets = 0
          /\ vips.made > 0 => vips.concurrency # 0
          /\ vips.sets = 1 => vips.concurrency = vips.cpus)
    /\ [][/\ vips'.sets # vips.sets =>
                /\ vips.concurrency = 0 /\ vips.sets = 0
                /\ vips'.concurrency = vips.cpus /\ vips'.sets = 1
          /\ vips.concurrency # 0 => vips'.concurrency = vips.concurrency
          /\ (vips.concurrency = 0 /\ vips'.made > vips.made) =>
                vips'.sets = 1]_vars

\* Witness of C25: a pyramid run that started with the thread count unset
\* has finished, with levels made by downsample and upsample and five or
\* more VImage objects constructed after the one that set it.
C25_Witness ==
    /\ mode = "pyramid" /\ pc = "done" /\ Len(levels) >= 3
    /\ vips.sets = 1 /\ vips.made >= 6
    /\ vips.concurrency = vips.cpus

-----------------------------------------------------------------------------
(* Properties of the levels of a pyramid run.                              *)

\* The TmsTiles invariants: whole tiles both ways and an integer offset.
TilesInvariant(t) == WholeTiles(t) /\ t.ox \in Int /\ t.oy \in Int

\* The level a submitted tile was cut from.
LevelOf(e) == levels[CHOOSE k \in 1..Len(levels) : levels[k].res = e.z]

\* C22: downsample and upsample of a TmsTiles of whole tiles at an integer
\* offset return a TmsTiles of whole tiles at an integer offset; in a
\* pyramid run from an image of whole tiles every level that reaches _slice
\* is one, no extract_area is refused, and every tile submitted is the
\* TILE_SIDE by TILE_SIDE area extract_area cut inside its level.
C22_LevelsAligned ==
    /\ \A k \in 1..Len(levels) :
          (levels[k].by \in {"downsample", "upsample"}
              /\ TilesInvariant(levels[k].src))
          => TilesInvariant(levels[k].tiles)
    /\ (mode = "pyramid" /\ AlignedInput) =>
          /\ \A k \in 1..Len(levels) : TilesInvariant(levels[k].tiles)
          /\ raised_by \notin {"extract_area", "downsample", "upsample"}
          /\ \A i \in 1..Len(plan) : plan[i].kind # "fail"
          /\ \A i \in 1..Len(submitted) :
                submitted[i].kind = "tile" =>
                    ExtractArea(TilesImage(LevelOf(submitted[i]).tiles),
                                submitted[i].px, submitted[i].py,
                                TILE_SIDE, TILE_SIDE)
                    = Ok(Img(TILE_SIDE, TILE_SIDE))

\* Witness of C22: a finished pyramid run from an image of whole tiles with
\* an upsampled level and a downsampled level whose half-size image
\* tms_align had to embed, all tiles of both submitted.
C22_Witness ==
    /\ mode = "pyramid" /\ AlignedInput /\ pc = "done"
    /\ \E k \in 1..Len(levels) : levels[k].by = "upsample"
    /\ \E k \in 1..Len(levels) :
          /\ levels[k].by = "downsample"
          /\ Shrink(TilesImage(levels[k].src), <<1, 2>>, <<1, 2>>).img
                # TilesImage(levels[k].tiles)
          /\ TilesAt(levels[k].res) # {}

\* The resolutions of the levels made by downsample so far.
DownsampledZooms ==
    {levels[k].res : k \in {j \in 1..Len(levels) : levels[j].by = "downsample"}}

\* C28: in a pyramid run that _validate_resolutions has let through,
\* downsample is never called on a TmsTiles of resolution 0 and its
\* assertion resolution >= levels > 0 never fails; the loop of
\* slice_downsample ends at min_resolution, having made every zoom from
\* native - 1 down to it and none below; no TmsTiles and no submission has
\* a negative zoom.
C28_DownsampleStopsAtMin ==
    (mode = "pyramid" /\ pc # "start"
        /\ raised_by # "_validate_resolutions") =>
        /\ raised_by # "downsample" /\ err # "AssertionError"
        /\ \A k \in 1..Len(levels) :
              /\ levels[k].tiles.res >= 0 /\ levels[k].res >= 0
              /\ levels[k].by = "downsample" =>
                    /\ levels[k].src.res >= 1
                    /\ levels[k].src.res >= levels[k].n /\ levels[k].n > 0
                    /\ levels[k].tiles.res = levels[k].src.res - 1
        /\ \A i \in 1..Len(down_todo) : down_todo[i] >= 0
        /\ \A i \in 1..Len(submitted) : submitted[i].z >= 0
        /\ \A i \in 1..Len(plan) : plan[i].z >= 0
        /\ \A z \in DownsampledZooms :
              /\ z < resolution
              /\ \A m \in min_resolution : z >= m
        /\ min_resolution = {} => DownsampledZooms = {}
        /\ (pc = "done" /\ min_resolution # {}) =>
              \A m \in min_resolution : DownsampledZooms = m..(resolution - 1)

\* Witness of C28: a run from native zoom 2 with min_resolution = 0 has
\* finished; its last downsample was of the TmsTiles of zoom 1 and made
\* zoom 0.
C28_Witness ==
    /\ mode = "pyramid" /\ pc = "done"
    /\ resolution = 2 /\ min_resolution = {0} /\ down_todo = <<>>
    /\ DownsampledZooms = {0, 1}
    /\ \E k \in 1..Len(levels) :
          /\ levels[k].by = "downsample" /\ levels[k].res = 0
          /\ levels[k].src.res = 1

====
